---- MODULE Spec2Model ----
(***************************************************************************)
(* A model of @graphile/logger (src/index.ts): the Logger class, its scope *)
(* derivation and level methods, and the built-in console log factory.     *)
(*                                                                         *)
(* JavaScript objects live in a heap and are named by references, so that  *)
(* two holders of one reference see each other's writes.  A scope object   *)
(* is a function from property names to values; a value is a primitive     *)
(* ([prim |-> n]) or a nested object (a record of its own fields).         *)
(***************************************************************************)
EXTENDS Integers, Sequences, FiniteSets, TLC

VARIABLES
  heap,       \* heap[r]: the properties of the scope object with reference r
  loggers,    \* the Logger instances: [_scope, _logFactory, log]
  fns,        \* the log functions the factories returned: [factory, scope]
  invoked,    \* invoked[f]: how many times factory f has been called
  aborted,    \* aborted[f]: how many of these calls threw
  env,        \* process.env.GRAPHILE_LOGGER_DEBUG
  derivation, \* per logger, how it was made: [parent, arg, chain, made]
  mutations,  \* how many property writes the calling code has performed
  last        \* the most recent operation and everything it caused

vars == <<heap, loggers, fns, invoked, aborted, env, derivation, mutations, last>>

(***************************************************************************)
(* Bounds of the model.                                                    *)
(***************************************************************************)
MaxLoggers == 2     \* Logger instances created besides defaultLogger
MaxThrows == 1      \* factory invocations that throw
MaxMutations == 1   \* property writes by the calling code

(***************************************************************************)
(* Values.                                                                 *)
(***************************************************************************)
Prim(n) == [prim |-> n]

Undefined == [undefined |-> TRUE]

IsObject(v) == "prim" \notin DOMAIN v /\ "undefined" \notin DOMAIN v

EmptyScope == [k \in {} |-> Prim(0)]

ScopeA == [a |-> Prim(1), o |-> [x |-> 1]]

ScopeB == [o |-> [y |-> 1], b |-> Prim(2)]

InitialScopes == {EmptyScope, ScopeA}

AdditionalScopes == {ScopeA, ScopeB}

Meta1 == [meaningOfLife |-> 42]

\* LogLevel (src/index.ts:13-38)
ERROR == "error"

WARNING == "warning"

INFO == "info"

DEBUG == "debug"

Methods == {"error", "warn", "info", "debug"}

\* The factories of the model: a user-provided recording factory, the
\* exported consoleLogFactory (default configuration) and the result of
\* makeConsoleLogFactory(config) for one custom configuration.
SpyFactories == {"spy"}

ConsoleFactories == {"consoleLogFactory", "customConsoleLogFactory"}

Factories == SpyFactories \cup ConsoleFactories

Unset == [unset |-> TRUE]

EnvValue(s) == [value |-> s]

(***************************************************************************)
(* The built-in console backend (src/index.ts:173-204).                    *)
(***************************************************************************)
Str(s) == [str |-> s]

\* String.prototype.toUpperCase on the four level strings (index.ts:177)
ToUpperCase(level) ==
  CASE level = ERROR -> "ERROR"
    [] level = WARNING -> "WARNING"
    [] level = INFO -> "INFO"
    [] level = DEBUG -> "DEBUG"

\* The configuration each console factory was made with: the default one
\* (index.ts:174-179) and a custom one that prints the scope first.
ConfigFormat(f) ==
  IF f = "consoleLogFactory" THEN "%s: %s (%O)" ELSE "%O %s - %s"

FormatParameters(f, level, message, scope) ==
  IF f = "consoleLogFactory"
    THEN <<Str(ToUpperCase(level)), Str(message), scope>>
    ELSE <<scope, Str(level), Str(message)>>

\* !process.env.GRAPHILE_LOGGER_DEBUG (index.ts:183): undefined and the
\* empty string are falsy, every other string is truthy.
Falsy(e) == e = Unset \/ e = EnvValue("")

DebugDropped(level, e) == level = DEBUG /\ Falsy(e)

\* Mutant of ConsoleMethod: INFO falls through to console.log.
ConsoleMethodInfoAsLog(level) ==
  CASE level = ERROR -> "error"
    [] level = WARNING -> "warn"
    [] OTHER -> "log"

\* The switch on level (index.ts:187-199)
ConsoleMethod(level) ==
  CASE level = ERROR -> "error"
    [] level = WARNING -> "warn"
    [] level = INFO -> "info"
    [] OTHER -> "log"

\* console[method](format, ...formatParameters(level, message, scope))
\* (index.ts:201); scope is the object the factory was called with, read
\* when the write happens.
ConsoleWrites(f, scope, level, message, e, h) ==
  IF DebugDropped(level, e)
    THEN <<>>
    ELSE <<[method |-> ConsoleMethod(level),
            args |-> <<Str(ConfigFormat(f))>>
                       \o FormatParameters(f, level, message, h[scope])]>>

(***************************************************************************)
(* Calling a log function.  A log function made by a spy factory records   *)
(* the call and then returns a value or throws, as the caller of the       *)
(* model chooses; one made by a console factory runs index.ts:182-202 and  *)
(* returns undefined.                                                      *)
(***************************************************************************)
Ack == [ack |-> TRUE]

Outcomes(f) == IF f \in SpyFactories THEN {"return", "throw"} ELSE {"return"}

\* Mutant of LogCall: the console log function forwards meta to the write.
LogCallForwardingMeta(fn, level, message, meta, outcome) ==
  LET f == fns[fn].factory IN
  LET returned == IF outcome = "throw" \/ f \in ConsoleFactories
                    THEN Undefined ELSE Ack IN
  LET w == ConsoleWrites(f, fns[fn].scope, level, message, env, heap) IN
  [call |-> [fn |-> fn, level |-> level, message |-> message, meta |-> meta,
             threw |-> outcome = "throw", returned |-> returned],
   writes |-> IF f \in ConsoleFactories
                THEN [k \in DOMAIN w |->
                        [method |-> w[k].method, args |-> Append(w[k].args, meta)]]
                ELSE <<>>,
   threw |-> outcome = "throw",
   ret |-> returned]

LogCall(fn, level, message, meta, outcome) ==
  LET f == fns[fn].factory IN
  LET returned == IF outcome = "throw" \/ f \in ConsoleFactories
                    THEN Undefined ELSE Ack IN
  [call |-> [fn |-> fn, level |-> level, message |-> message, meta |-> meta,
             threw |-> outcome = "throw", returned |-> returned],
   writes |-> IF f \in ConsoleFactories
                THEN ConsoleWrites(f, fns[fn].scope, level, message, env, heap)
                ELSE <<>>,
   threw |-> outcome = "throw",
   ret |-> returned]

\* Mutant of LogMethod: the call is wrapped in try/catch and a failure of
\* the log function is swallowed.
LogMethodCatching(i, level, message, meta, outcome) ==
  LET r == LogCall(loggers[i].log, level, message, meta, outcome) IN
  [logCalls |-> <<r.call>>, writes |-> r.writes, threw |-> FALSE, ret |-> r.ret]

\* The body shared by error, warn, info and debug:
\* return this.log(level, message, meta)  (index.ts:107-130)
LogMethod(i, level, message, meta, outcome) ==
  LET r == LogCall(loggers[i].log, level, message, meta, outcome) IN
  [logCalls |-> <<r.call>>, writes |-> r.writes, threw |-> r.threw, ret |-> r.ret]

(***************************************************************************)
(* The Logger class (src/index.ts:65-131).                                 *)
(***************************************************************************)
\* Mutant of Spread: object-valued fields present on both sides are merged
\* field by field.
SpreadDeep(a, b) ==
  [k \in DOMAIN a \cup DOMAIN b |->
     IF k \notin DOMAIN b THEN a[k]
     ELSE IF k \in DOMAIN a /\ IsObject(a[k]) /\ IsObject(b[k])
       THEN [x \in DOMAIN a[k] \cup DOMAIN b[k] |->
               IF x \in DOMAIN b[k] THEN b[k][x] ELSE a[k][x]]
       ELSE b[k]]

\* { ...a, ...b }  (index.ts:91-94)
Spread(a, b) ==
  [k \in DOMAIN a \cup DOMAIN b |-> IF k \in DOMAIN b THEN b[k] ELSE a[k]]

\* Mutant of Constructor: the log function of an existing logger with the
\* same factory and an equal scope is reused instead of calling the factory.
ConstructorMemoizing(h, logFactory, scope, throws) ==
  LET call == [factory |-> logFactory, scope |-> scope, arg |-> h[scope],
               threw |-> throws]
      same == {k \in DOMAIN fns :
                 fns[k].factory = logFactory /\ heap[fns[k].scope] = h[scope]}
      hit == same # {}
      fn == IF hit THEN CHOOSE k \in same : TRUE ELSE Len(fns) + 1
  IN IF throws /\ ~hit
       THEN [heap |-> heap, loggers |-> loggers, fns |-> fns,
             factoryCalls |-> <<call>>, threw |-> TRUE, ret |-> Undefined]
       ELSE [heap |-> h,
             loggers |-> Append(loggers, [_scope |-> scope,
                                          _logFactory |-> logFactory,
                                          log |-> fn]),
             fns |-> IF hit THEN fns
                     ELSE Append(fns, [factory |-> logFactory, scope |-> scope]),
             factoryCalls |-> IF hit THEN <<>> ELSE <<call>>,
             threw |-> FALSE,
             ret |-> [logger |-> Len(loggers) + 1]]

\* new Logger(logFactory, scope) run on heap h (index.ts:71-79).  The
\* factory either returns a log function closed over scope or throws; when
\* it throws, the constructor is abandoned and no Logger exists.
Constructor(h, logFactory, scope, throws) ==
  LET call == [factory |-> logFactory, scope |-> scope, arg |-> h[scope],
               threw |-> throws]
      fn == Len(fns) + 1
  IN IF throws
       THEN [heap |-> heap, loggers |-> loggers, fns |-> fns,
             factoryCalls |-> <<call>>, threw |-> TRUE, ret |-> Undefined]
       ELSE [heap |-> h,
             loggers |-> Append(loggers, [_scope |-> scope,
                                          _logFactory |-> logFactory,
                                          log |-> fn]),
             fns |-> Append(fns, [factory |-> logFactory, scope |-> scope]),
             factoryCalls |-> <<call>>, threw |-> FALSE,
             ret |-> [logger |-> Len(loggers) + 1]]

\* Mutant of ScopeHeap: additionalScope is also assigned onto this._scope.
ScopeHeapInPlace(i, additionalScope) ==
  [heap EXCEPT ![loggers[i]._scope] = Spread(@, additionalScope)]
    \o <<additionalScope, Spread(heap[loggers[i]._scope], additionalScope)>>

\* The heap after scope() has evaluated its two arguments: the caller's
\* additionalScope object and the fresh merged object (index.ts:91-94).
ScopeHeap(i, additionalScope) ==
  heap \o <<additionalScope, Spread(heap[loggers[i]._scope], additionalScope)>>

Count(calls, f) == Cardinality({k \in DOMAIN calls : calls[k].factory = f})

Invoked(calls) == [f \in Factories |-> invoked[f] + Count(calls, f)]

Aborted(calls) ==
  [f \in Factories |->
     aborted[f] + Cardinality({k \in DOMAIN calls :
                                calls[k].factory = f /\ calls[k].threw})]

Thrown ==
  aborted["spy"] + aborted["consoleLogFactory"] + aborted["customConsoleLogFactory"]

\* What the calling code and the outside world saw of one operation: the
\* call (op, logger, scope or message and meta), its outcome (threw, ret),
\* and the factory calls, log function calls and console writes it made.
Report(op, i, scope, message, meta, threw, ret, factoryCalls, logCalls, writes) ==
  [op |-> op, logger |-> i, scope |-> scope, message |-> message, meta |-> meta,
   threw |-> threw, ret |-> ret, factoryCalls |-> factoryCalls,
   logCalls |-> logCalls, writes |-> writes]

\* Module initialisation (index.ts:213-218): consoleLogFactory is made and
\* defaultLogger = new Logger(consoleLogFactory, {}) is constructed.
Init ==
  /\ heap = <<EmptyScope>>
  /\ loggers = <<[_scope |-> 1, _logFactory |-> "consoleLogFactory", log |-> 1]>>
  /\ fns = <<[factory |-> "consoleLogFactory", scope |-> 1]>>
  /\ invoked = [f \in Factories |-> IF f = "consoleLogFactory" THEN 1 ELSE 0]
  /\ aborted = [f \in Factories |-> 0]
  /\ env = Unset
  /\ derivation = <<[parent |-> 0, arg |-> 0, chain |-> <<EmptyScope>>,
                     made |-> EmptyScope]>>
  /\ mutations = 0
  /\ last = Report("init", 0, EmptyScope, "", Undefined, FALSE, [logger |-> 1],
                   <<[factory |-> "consoleLogFactory", scope |-> 1,
                      arg |-> EmptyScope, threw |-> FALSE]>>, <<>>, <<>>)

\* new Logger(logFactory, initialScope) by the calling code, which builds
\* the initialScope object and passes its reference (index.ts:71-79).
NewLogger(logFactory, initialScope, throws) ==
  /\ Len(loggers) <= MaxLoggers
  /\ throws => (logFactory \in SpyFactories /\ Thrown < MaxThrows)
  /\ LET r == Len(heap) + 1
         c == Constructor(Append(heap, initialScope), logFactory, r, throws)
     IN /\ heap' = c.heap
        /\ loggers' = c.loggers
        /\ fns' = c.fns
        /\ invoked' = Invoked(c.factoryCalls)
        /\ aborted' = Aborted(c.factoryCalls)
        /\ derivation' =
             IF Len(c.loggers) > Len(loggers)
               THEN Append(derivation, [parent |-> 0, arg |-> r,
                                        chain |-> <<initialScope>>,
                                        made |-> initialScope])
               ELSE derivation
        /\ last' = Report("new", 0, initialScope, "", Undefined, c.threw, c.ret,
                          c.factoryCalls, <<>>, <<>>)
  /\ UNCHANGED <<env, mutations>>

\* loggers[i].scope(additionalScope)  (index.ts:88-95)
Scope(i, additionalScope, throws) ==
  /\ i \in DOMAIN loggers
  /\ Len(loggers) <= MaxLoggers
  /\ throws => (loggers[i]._logFactory \in SpyFactories /\ Thrown < MaxThrows)
  /\ LET h == ScopeHeap(i, additionalScope)
         c == Constructor(h, loggers[i]._logFactory, Len(h), throws)
     IN /\ heap' = c.heap
        /\ loggers' = c.loggers
        /\ fns' = c.fns
        /\ invoked' = Invoked(c.factoryCalls)
        /\ aborted' = Aborted(c.factoryCalls)
        /\ derivation' =
             IF Len(c.loggers) > Len(loggers)
               THEN Append(derivation,
                           [parent |-> i, arg |-> Len(h) - 1,
                            chain |-> Append(derivation[i].chain, additionalScope),
                            made |-> h[Len(h)]])
               ELSE derivation
        /\ last' = Report("scope", i, additionalScope, "", Undefined, c.threw, c.ret,
                          c.factoryCalls, <<>>, <<>>)
  /\ UNCHANGED <<env, mutations>>

\* loggers[i].getCurrentScope()  (index.ts:100-102)
GetCurrentScope(i) ==
  /\ i \in DOMAIN loggers
  /\ last' = Report("getCurrentScope", i, EmptyScope, "", Undefined, FALSE,
                    [ref |-> loggers[i]._scope], <<>>, <<>>, <<>>)
  /\ UNCHANGED <<heap, loggers, fns, invoked, aborted, env, derivation, mutations>>

LevelStep(op, i, message, meta, r) ==
  /\ last' = Report(op, i, EmptyScope, message, meta, r.threw, r.ret, <<>>,
                    r.logCalls, r.writes)
  /\ UNCHANGED <<heap, loggers, fns, invoked, aborted, env, derivation, mutations>>

\* loggers[i].error(message, meta)  (index.ts:107-109)
error(i, message, meta, outcome) ==
  /\ i \in DOMAIN loggers
  /\ outcome \in Outcomes(loggers[i]._logFactory)
  /\ LevelStep("error", i, message, meta,
               LogMethod(i, ERROR, message, meta, outcome))

\* Mutant of warn: the level passed is LogLevel.INFO.
warnAsInfo(i, message, meta, outcome) ==
  /\ i \in DOMAIN loggers
  /\ outcome \in Outcomes(loggers[i]._logFactory)
  /\ LevelStep("warn", i, message, meta,
               LogMethod(i, INFO, message, meta, outcome))

\* loggers[i].warn(message, meta)  (index.ts:114-116)
warn(i, message, meta, outcome) ==
  /\ i \in DOMAIN loggers
  /\ outcome \in Outcomes(loggers[i]._logFactory)
  /\ LevelStep("warn", i, message, meta,
               LogMethod(i, WARNING, message, meta, outcome))

\* loggers[i].info(message, meta)  (index.ts:121-123)
info(i, message, meta, outcome) ==
  /\ i \in DOMAIN loggers
  /\ outcome \in Outcomes(loggers[i]._logFactory)
  /\ LevelStep("info", i, message, meta,
               LogMethod(i, INFO, message, meta, outcome))

\* loggers[i].debug(message, meta)  (index.ts:128-130)
debug(i, message, meta, outcome) ==
  /\ i \in DOMAIN loggers
  /\ outcome \in Outcomes(loggers[i]._logFactory)
  /\ LevelStep("debug", i, message, meta,
               LogMethod(i, DEBUG, message, meta, outcome))

Calls == {<<"Hello world!", Undefined>>, <<"Starting job...", Meta1>>}

LoggerIds == 1..(MaxLoggers + 1)

Next ==
  \/ \E f \in SpyFactories, s \in InitialScopes, t \in BOOLEAN : NewLogger(f, s, t)
  \/ \E i \in LoggerIds, a \in AdditionalScopes, t \in BOOLEAN : Scope(i, a, t)
  \/ \E i \in LoggerIds : GetCurrentScope(i)
  \/ \E i \in LoggerIds, c \in Calls, o \in {"return", "throw"} : error(i, c[1], c[2], o)
  \/ \E i \in LoggerIds, c \in Calls, o \in {"return", "throw"} : warn(i, c[1], c[2], o)
  \/ \E i \in LoggerIds, c \in Calls, o \in {"return", "throw"} : info(i, c[1], c[2], o)
  \/ \E i \in LoggerIds, c \in Calls, o \in {"return", "throw"} : debug(i, c[1], c[2], o)

Spec == Init /\ [][Next]_vars

(***************************************************************************)
(* The console backend in use: loggers are also made from the console      *)
(* factories, and the environment variable is set and deleted.             *)
(***************************************************************************)
\* process.env.GRAPHILE_LOGGER_DEBUG = value
SetEnv(value) ==
  /\ env # EnvValue(value)
  /\ env' = EnvValue(value)
  /\ last' = Report("setenv", 0, EmptyScope, "", Undefined, FALSE, Undefined, <<>>, <<>>, <<>>)
  /\ UNCHANGED <<heap, loggers, fns, invoked, aborted, derivation, mutations>>

\* delete process.env.GRAPHILE_LOGGER_DEBUG
UnsetEnv ==
  /\ env # Unset
  /\ env' = Unset
  /\ last' = Report("unsetenv", 0, EmptyScope, "", Undefined, FALSE, Undefined, <<>>, <<>>, <<>>)
  /\ UNCHANGED <<heap, loggers, fns, invoked, aborted, derivation, mutations>>

NextConsole ==
  \/ \E f \in ConsoleFactories, s \in InitialScopes : NewLogger(f, s, FALSE)
  \/ \E i \in LoggerIds, a \in AdditionalScopes : Scope(i, a, FALSE)
  \/ \E i \in LoggerIds, c \in Calls : error(i, c[1], c[2], "return")
  \/ \E i \in LoggerIds, c \in Calls : warn(i, c[1], c[2], "return")
  \/ \E i \in LoggerIds, c \in Calls : info(i, c[1], c[2], "return")
  \/ \E i \in LoggerIds, c \in Calls : debug(i, c[1], c[2], "return")
  \/ \E v \in {"", "1"} : SetEnv(v)
  \/ UnsetEnv

SpecConsole == Init /\ [][NextConsole]_vars

(***************************************************************************)
(* The calling code writing to objects it holds a reference to: the object *)
(* it passed as initialScope or additionalScope, and the object that       *)
(* getCurrentScope() returned to it.                                       *)
(***************************************************************************)
Put(obj, k, v) == [x \in DOMAIN obj \cup {k} |-> IF x = k THEN v ELSE obj[x]]

Delete(obj, k) == [x \in DOMAIN obj \ {k} |-> obj[x]]

Write(obj, w) == IF w.delete THEN Delete(obj, w.key) ELSE Put(obj, w.key, w.value)

Writes == {[delete |-> FALSE, key |-> "a", value |-> Prim(9)],
           [delete |-> TRUE, key |-> "a", value |-> Undefined]}

\* arg[key] = value or delete arg[key], on the object passed when logger i
\* was made (initialScope of new Logger, additionalScope of scope)
MutateArg(i, w) ==
  /\ i \in DOMAIN loggers
  /\ derivation[i].arg # 0
  /\ mutations < MaxMutations
  /\ Write(heap[derivation[i].arg], w) # heap[derivation[i].arg]
  /\ heap' = [heap EXCEPT ![derivation[i].arg] = Write(@, w)]
  /\ mutations' = mutations + 1
  /\ last' = Report("mutateArg", i, EmptyScope, "", Undefined, FALSE, Undefined, <<>>, <<>>, <<>>)
  /\ UNCHANGED <<loggers, fns, invoked, aborted, env, derivation>>

\* view[key] = value or delete view[key], on the value getCurrentScope()
\* has just returned
MutateView(w) ==
  /\ last.op = "getCurrentScope"
  /\ mutations < MaxMutations
  /\ Write(heap[last.ret.ref], w) # heap[last.ret.ref]
  /\ heap' = [heap EXCEPT ![last.ret.ref] = Write(@, w)]
  /\ mutations' = mutations + 1
  /\ last' = Report("mutateView", last.logger, EmptyScope, "", Undefined, FALSE, Undefined,
                    <<>>, <<>>, <<>>)
  /\ UNCHANGED <<loggers, fns, invoked, aborted, env, derivation>>

NextCaller ==
  \/ Next
  \/ \E i \in LoggerIds, w \in Writes : MutateArg(i, w)
  \/ \E w \in Writes : MutateView(w)

SpecCaller == Init /\ [][NextCaller]_vars

(***************************************************************************)
(* Properties.                                                             *)
(***************************************************************************)
ScopeOf(i) == heap[loggers[i]._scope]

OwnFunction(i) ==
  /\ loggers[i].log \in DOMAIN fns
  /\ fns[loggers[i].log] = [factory |-> loggers[i]._logFactory,
                            scope |-> loggers[i]._scope]
  /\ \A j \in DOMAIN loggers : j # i => loggers[j].log # loggers[i].log

\* The index of the last scope of chain that mentions key k
LastMention(chain, k) ==
  CHOOSE n \in DOMAIN chain :
    /\ k \in DOMAIN chain[n]
    /\ \A m \in DOMAIN chain : k \in DOMAIN chain[m] => m <= n

\* The left-to-right shallow merge of a sequence of scopes
MergeOf(chain) ==
  [k \in UNION {DOMAIN chain[n] : n \in DOMAIN chain} |->
     chain[LastMention(chain, k)][k]]

\* C1: the scope of the logger made by new Logger(factory, R).scope(A1)...
\* .scope(An), as getCurrentScope() reports it, is the shallow left-to-right
\* merge of R, A1, ..., An: each key has the value of the last scope that
\* mentions it, whole (an object value is replaced, never merged).
C1_ScopeIsShallowMerge ==
  /\ \A i \in DOMAIN loggers : ScopeOf(i) = MergeOf(derivation[i].chain)
  /\ last.op = "getCurrentScope" =>
       heap[last.ret.ref] = MergeOf(derivation[last.logger].chain)

\* C1 witness: getCurrentScope() on defaultLogger.scope(ScopeA).scope(ScopeB):
\* a is carried over, o is replaced whole, b is added.
C1_Witness ==
  /\ last.op = "getCurrentScope"
  /\ derivation[last.logger].chain = <<EmptyScope, ScopeA, ScopeB>>
  /\ heap[last.ret.ref] = [a |-> Prim(1), o |-> [y |-> 1], b |-> Prim(2)]

\* C2: a scope() or logging call leaves every existing logger as it was:
\* the content of its scope, its factory and its bound log function.
C2_ExistingLoggersUntouched ==
  [][last'.op \in {"scope"} \cup Methods =>
       \A i \in DOMAIN loggers :
         /\ i \in DOMAIN loggers'
         /\ loggers'[i] = loggers[i]
         /\ heap'[loggers'[i]._scope] = heap[loggers[i]._scope]
         /\ fns'[loggers'[i].log] = fns[loggers[i].log]]_vars

\* C2 witness: a logger with a non-empty scope has just been scoped with a
\* scope whose keys conflict with its own.
C2_Witness ==
  /\ last.op = "scope"
  /\ ~last.threw
  /\ last.logger = 2
  /\ ScopeOf(2) = ScopeA
  /\ last.scope = ScopeB
  /\ Len(loggers) = 3

Created(f) == Cardinality({i \in DOMAIN loggers : loggers[i]._logFactory = f})

\* C3 as stated: after any sequence of operations the number of factory
\* invocations equals the number of Loggers created from that factory.
C3_InvocationsEqualLoggers ==
  \A f \in Factories : invoked[f] = Created(f)

\* C3 as amended: every creation attempt (new Logger or scope) invokes the
\* factory exactly once, scope() the factory its parent holds, with the
\* scope the new Logger gets; no other operation invokes it and no result
\* is reused; so the number of invocations equals the number of Loggers
\* created from the factory plus the number of creations it aborted.
C3_FactoryOncePerCreation ==
  /\ \A f \in Factories : invoked[f] = Created(f) + aborted[f]
  /\ \A i \in DOMAIN loggers : OwnFunction(i)
  /\ last.op \in {"init", "new", "scope"} <=> Len(last.factoryCalls) = 1
  /\ Len(last.factoryCalls) <= 1
  /\ (last.op = "new" /\ last.factoryCalls # <<>>) =>
       last.factoryCalls[1].arg = last.scope
  /\ (last.op = "scope" /\ last.factoryCalls # <<>>) =>
       /\ last.factoryCalls[1].factory = loggers[last.logger]._logFactory
       /\ last.factoryCalls[1].arg = MergeOf(<<ScopeOf(last.logger), last.scope>>)
  /\ (last.op \in {"new", "scope"} /\ ~last.threw) =>
       /\ last.ret = [logger |-> Len(loggers)]
       /\ last.factoryCalls[1].factory = loggers[Len(loggers)]._logFactory
       /\ last.factoryCalls[1].scope = loggers[Len(loggers)]._scope

\* C3 witness: a child has just been derived from a spy logger after the
\* spy factory has thrown once.
C3_Witness ==
  /\ last.op = "scope"
  /\ ~last.threw
  /\ loggers[last.logger]._logFactory = "spy"
  /\ aborted["spy"] = 1
  /\ invoked["spy"] = 3

LevelNamed(op) ==
  CASE op = "error" -> "error"
    [] op = "warn" -> "warning"
    [] op = "info" -> "info"
    [] op = "debug" -> "debug"

\* C4: each error/warn/info/debug call invokes the logger's own log function
\* exactly once, with the level of the method ("warning" for warn), the
\* message and the meta given, and returns what it returns; no log function
\* is invoked at any other time.
C4_LevelMethodPassesThrough ==
  /\ \A i \in DOMAIN loggers : OwnFunction(i)
  /\ last.op \notin Methods => last.logCalls = <<>>
  /\ last.op \in Methods =>
       /\ Len(last.logCalls) = 1
       /\ last.logCalls[1].fn = loggers[last.logger].log
       /\ last.logCalls[1].level = LevelNamed(last.op)
       /\ last.logCalls[1].message = last.message
       /\ last.logCalls[1].meta = last.meta
       /\ last.ret = last.logCalls[1].returned
       /\ last.threw = last.logCalls[1].threw

\* C4 witness: warn with metadata on a spy logger derived by scope(), the
\* log function returning a value.
C4_Witness ==
  /\ last.op = "warn"
  /\ derivation[last.logger].parent # 0
  /\ loggers[last.logger]._logFactory = "spy"
  /\ last.meta = Meta1
  /\ last.ret = Ack

\* C5: writing to the value getCurrentScope() returned does not change the
\* scope of any logger.
C5_ViewWriteLeavesScope ==
  [][last'.op = "mutateView" =>
       \A i \in DOMAIN loggers : heap'[loggers[i]._scope] = heap[loggers[i]._scope]]_vars

\* C9: writing to the object that was passed as initialScope or
\* additionalScope does not change the scope of any logger.
C9_ArgWriteLeavesScope ==
  [][last'.op = "mutateArg" =>
       \A i \in DOMAIN loggers : ScopeOf(i)' = ScopeOf(i)]_vars

IsConsoleCall ==
  /\ last.op \in Methods
  /\ loggers[last.logger]._logFactory \in ConsoleFactories

\* C6: a debug call on a console logger writes to the console if and only
\* if GRAPHILE_LOGGER_DEBUG is present, whatever its value.
C6_DebugWritesIffPresent ==
  (IsConsoleCall /\ last.op = "debug") => (Len(last.writes) = 1 <=> env # Unset)

Channel(op) ==
  CASE op = "error" -> "error"
    [] op = "warn" -> "warn"
    [] op = "info" -> "info"
    [] op = "debug" -> "log"

\* C7: a call on a console logger makes at most one console write, on the
\* channel of its level (error, warn, info; log for debug); error, warn
\* and info calls make exactly one whatever the environment, and so does a
\* debug call when the flag is on.
C7_OneWriteOnLevelChannel ==
  IsConsoleCall =>
    /\ Len(last.writes) <= 1
    /\ \A k \in DOMAIN last.writes : last.writes[k].method = Channel(last.op)
    /\ last.op # "debug" => Len(last.writes) = 1
    /\ (last.op = "debug" /\ env = EnvValue("1")) => Len(last.writes) = 1

\* C7 witness: warn on a console logger while the flag is absent.
C7_Witness ==
  /\ IsConsoleCall
  /\ last.op = "warn"
  /\ env = Unset
  /\ Len(last.writes) = 1
  /\ last.writes[1].method = "warn"

\* C8: a factory that throws makes new Logger / scope throw, produce no
\* Logger and leave every logger as it was; a log function that throws
\* makes the level method throw, after one invocation and no console write.
C8_FailuresPropagate ==
  [][/\ (last'.op \in {"new", "scope"} /\ last'.factoryCalls # <<>>
          /\ last'.factoryCalls[1].threw) =>
         /\ last'.threw
         /\ Len(last'.factoryCalls) = 1
         /\ last'.ret = Undefined
         /\ loggers' = loggers
         /\ fns' = fns
         /\ \A i \in DOMAIN loggers : ScopeOf(i)' = ScopeOf(i)
     /\ (last'.op \in Methods /\ last'.logCalls # <<>>
          /\ last'.logCalls[1].threw) =>
         /\ last'.threw
         /\ Len(last'.logCalls) = 1
         /\ last'.writes = <<>>
         /\ loggers' = loggers]_vars

\* C8 witness: the spy factory has thrown in scope() on a spy logger.
C8_Witness ==
  /\ last.op = "scope"
  /\ last.threw
  /\ last.logger = 2
  /\ Len(loggers) = 2

UpperCased(op) ==
  CASE op = "error" -> "ERROR"
    [] op = "warn" -> "WARNING"
    [] op = "info" -> "INFO"
    [] op = "debug" -> "DEBUG"

\* C10: the arguments of a console write are the configured format string
\* followed by formatParameters(level, message, S) for the logger's scope
\* S; with the default configuration: "%s: %s (%O)", the upper-cased
\* level, the message and S.  The metadata is not among them.
C10_WriteArguments ==
  IsConsoleCall =>
    \A k \in DOMAIN last.writes :
      LET f == loggers[last.logger]._logFactory
          S == ScopeOf(last.logger)
      IN /\ last.writes[k].args =
              <<Str(ConfigFormat(f))>>
                \o FormatParameters(f, LevelNamed(last.op), last.message, S)
         /\ f = "consoleLogFactory" =>
              last.writes[k].args =
                <<Str("%s: %s (%O)"), Str(UpperCased(last.op)),
                  Str(last.message), S>>

\* C10 witness: info with metadata on a scoped logger of the default
\* console factory.
C10_Witness ==
  /\ IsConsoleCall
  /\ last.op = "info"
  /\ last.meta = Meta1
  /\ loggers[last.logger]._logFactory = "consoleLogFactory"
  /\ ScopeOf(last.logger) = ScopeA
  /\ Len(last.writes) = 1

====
